---- MODULE Spec2Model ----
(***************************************************************************)
(* A model of the video tagging application: the analysis pipeline and    *)
(* its start-analysis handler (src/main.py), the JSON history store       *)
(* (src/main.py) and the scene-synchronised player                        *)
(* (src/components/video_player.py).                                       *)
(*                                                                         *)
(* Times are integers: milliseconds for interval bounds and playback      *)
(* positions, hundredths of a second for the two-decimal texts the        *)
(* pipeline records (the text "5.00" is the number 500).                   *)
(***************************************************************************)
EXTENDS Integers, Sequences, FiniteSets, TLC

(***************************************************************************)
(* Bounds of the model.                                                    *)
(***************************************************************************)
\* The largest number of intervals the scene detector returns.
MaxScenes == 3
\* The largest number of runs the history document holds.
MaxHistory == 2

\* Interval bounds, in ms.  None ends in 5, so that the two-decimal
\* formatting never has to break a tie (see Fmt2).
TimePoints == {0, 4, 5000, 5004, 9000}

\* Playback positions, in ms.
Positions == TimePoints \cup {4990, 5010}

\* The browser sessions.  Session 1 owns the player.
Sessions == {1, 2}

(***************************************************************************)
(* Videos.  A video is what the external libraries report about the       *)
(* uploaded file: whether it can be opened, its frame rate and frame      *)
(* count, and the cut list the content detector finds (cuts[k], cuts[k+1] *)
(* are the bounds of scene k, in ms).                                      *)
(***************************************************************************)
RECURSIVE SortedSeq(_)
\* The elements of a set of integers as an increasing sequence.
SortedSeq(S) ==
  IF S = {} THEN <<>>
  ELSE LET m == CHOOSE x \in S : \A y \in S : x <= y
       IN <<m>> \o SortedSeq(S \ {m})

\* The readable videos run at 250 frames per second (one frame lasts 4 ms), so
\* a video that ends at d ms holds d / 4 frames.
CutVideos(names, points, maxScenes) ==
  { [name |-> n, readable |-> TRUE, fps |-> 250,
     frame_count |-> (CHOOSE m \in C : \A y \in C : y <= m) \div 4,
     cuts |-> SortedSeq(C \cup {0})] :
      n \in names,
      C \in { D \in SUBSET (points \ {0}) : D # {} /\ Cardinality(D) <= maxScenes } }

\* Videos in which the detector finds no cut at all.
UncutVideos(names, points) ==
  { [name |-> n, readable |-> TRUE, fps |-> 250, frame_count |-> d \div 4,
     cuts |-> <<>>] : n \in names, d \in points \ {0} }

\* Files that cannot be opened, and containers that hold no frame (with and
\* without a frame rate).
BrokenVideos(names) ==
  { [name |-> n, readable |-> FALSE, fps |-> 0, frame_count |-> 0, cuts |-> <<>>] :
      n \in names }
  \cup
  { [name |-> n, readable |-> TRUE, fps |-> f, frame_count |-> 0, cuts |-> <<>>] :
      n \in names, f \in {0, 250} }

\* The uploads of the pipeline specification.
AllVideos ==
  CutVideos({"a.mp4"}, TimePoints, MaxScenes)
    \cup UncutVideos({"a.mp4"}, TimePoints)
    \cup BrokenVideos({"a.mp4"})

\* The uploads of the history specification: two names, one cut at most.
HistoryVideos ==
  CutVideos({"a.mp4", "b.mp4"}, {0, 5000, 9000}, 2)
    \cup UncutVideos({"a.mp4"}, {0, 9000})
    \cup BrokenVideos({"a.mp4"})

\* The uploads of the two-session specification: each session uploads a file
\* of its own name, so that the two sessions' runs can be told apart.
RaceVideos(s) ==
  UncutVideos({IF s = 1 THEN "a.mp4" ELSE "b.mp4"}, {0, 9000})
    \cup (IF s = 1 THEN BrokenVideos({"a.mp4"}) ELSE {})

(***************************************************************************)
(* The history store (src/main.py, lines 57-74).  The document is absent  *)
(* or holds a sequence of runs, newest first.  json.dumps followed by     *)
(* json.loads returns lists, dicts, strings and integers as they were, so *)
(* the document is modelled by the sequence it encodes.  A run's "date"   *)
(* (the wall clock at save time) is left out: nothing reads it back.      *)
(***************************************************************************)
AbsentFile == [exists |-> FALSE, runs |-> <<>>]

load_history(f) == IF f.exists THEN f.runs ELSE <<>>

\* A variant of NewRunId that numbers from 0.
NewRunIdLength(history) == Len(history)

\* Line 68.
NewRunId(history) == Len(history) + 1

NewRun(history, video_name, results) ==
  [id |-> NewRunId(history), video_name |-> video_name,
   scene_count |-> Len(results), results |-> results]

\* A variant of InsertFront that appends at the end.
InsertBack(history, run) == history \o <<run>>

\* Line 67: history.insert(0, ...).
InsertFront(history, run) == <<run>> \o history

\* The document save_to_history writes, from the history it has read.
save_to_history(history, video_name, results) ==
  [exists |-> TRUE, runs |-> InsertFront(history, NewRun(history, video_name, results))]

(***************************************************************************)
(* The pipeline's pure parts (src/main.py, lines 83-166).                  *)
(***************************************************************************)
\* detect_scenes: the detector's scene list, a pair of frame timecodes per
\* scene.  Opening an unreadable file raises (see DetectScenes).
detect_scenes(v) ==
  [k \in 1..(Len(v.cuts) - 1) |->
     [timestamp |-> FALSE, s |-> v.cuts[k], e |-> v.cuts[k + 1]]]

\* The duration computed at line 119, in ms (fps # 0).
Duration(v) == (v.frame_count * 1000) \div v.fps

\* A variant of FallbackScenes that substitutes nothing.
FallbackScenesNone(v) == <<>>

\* The substitute for an empty scene list (line 120): one pair of timestamps.
FallbackScenes(v) == << [timestamp |-> TRUE, s |-> 0, e |-> Duration(v)] >>

\* Lines 128-131: the bounds of a scene, in ms.
SceneStart(scene) == IF scene.timestamp THEN 0 ELSE scene.s

SceneEnd(scene) == scene.e

\* Line 133.  Every bound of the model is even, so the division is exact.
Mid(start, end) == (start + end) \div 2

\* f"{ms/1000:.2f}" (lines 142-143), as hundredths of a second: the nearest
\* hundredth.  (Python rounds the binary value of ms/1000, which decides the
\* ties; no bound of the model ends in 5.)
Fmt2(ms) == (ms + 5) \div 10

\* A variant of SceneId that numbers from 0.
SceneIdZeroBased(i) == i

\* Line 141.
SceneId(i) == i + 1

\* A variant of Recorded without the test of line 138.
RecordedDespiteError(frame, analysis) == frame /\ analysis \in {"object", "error"}

\* Lines 136-138: a result is recorded when a frame came back and the
\* annotation holds no "error".
Recorded(frame, analysis) == frame /\ analysis = "object"

\* Lines 140-147.  Description, Tags and Mood are copied from the annotation
\* and read by nothing modelled here; they are left out.
SceneResult(i, start, end) ==
  [Scene_ID |-> SceneId(i), Start_Time_s |-> Fmt2(start), End_Time_s |-> Fmt2(end)]

\* Line 163: the fraction reported after interval i (0-based) of n, as the
\* pair <<numerator, denominator>>.
Progress(i, n) == <<i + 1, n>>

\* extract_frame (lines 90-95): whether cap.read() returns a frame.  A
\* container without frames never returns one.
FrameOutcomes(v) == IF v.frame_count = 0 THEN {FALSE} ELSE BOOLEAN

\* analyze_frame (lines 97-105) returns what json.loads made of the service's
\* answer: "object", a JSON object without an "error" key; "error", the
\* {"error": ...} of the except branch (transport failure, text that is no
\* JSON); "not_object", text that is JSON but no object (a list, a number):
\* json.loads accepts it and run_analysis then raises at lines 138-139.
Responses == {"object", "error", "not_object"}

\* Line 201: the truth value of st.session_state.results.
Truthy(value) == value # <<>>

\* A variant of HasResults that takes every list.
HasResultsAlways(results) == TRUE

\* Line 258: the truth value of the returned list.
HasResults(results) == results # <<>>

(***************************************************************************)
(* The player's pure parts (src/components/video_player.py, 184-224).      *)
(***************************************************************************)
\* parseFloat of a two-decimal text, in ms.
parseFloat(text) == text * 10

\* formatTime (lines 184-188): <<minutes, seconds>>.
formatTime(ms) == << (ms \div 1000) \div 60, (ms \div 1000) % 60 >>

RECURSIVE FindActive(_, _, _)
\* The loop of lines 200-207, from scene k on: the Scene_ID of the first
\* scene with start <= currentTime < end, or 0 (null) when there is none.
FindActive(scenes, k, t) ==
  IF k > Len(scenes) THEN 0
  ELSE IF t >= parseFloat(scenes[k].Start_Time_s) /\ t < parseFloat(scenes[k].End_Time_s)
       THEN scenes[k].Scene_ID
       ELSE FindActive(scenes, k + 1, t)

RECURSIVE FindActiveClosed(_, _, _)
\* A variant of the scan that takes the interval as closed: start <= t <= end.
FindActiveClosed(scenes, k, t) ==
  IF k > Len(scenes) THEN 0
  ELSE IF t >= parseFloat(scenes[k].Start_Time_s) /\ t <= parseFloat(scenes[k].End_Time_s)
       THEN scenes[k].Scene_ID
       ELSE FindActiveClosed(scenes, k + 1, t)

ActiveSceneIdClosed(scenes, t) == FindActiveClosed(scenes, 1, t)

\* Lines 196-207.
ActiveSceneId(scenes, t) == FindActive(scenes, 1, t)

\* Lines 210-219: the cards (by position in the list) that carry "active".
ActiveCards(scenes, activeSceneId) ==
  { k \in 1..Len(scenes) : scenes[k].Scene_ID = activeSceneId }

\* Lines 222-223: the status readout; scene 0 stands for the placeholder "-".
TimeDisplay(t, activeSceneId) ==
  [time |-> formatTime(t), scene |-> IF activeSceneId # 0 THEN activeSceneId ELSE 0]

(***************************************************************************)
(* State.                                                                  *)
(***************************************************************************)
VARIABLES
  pc,                  \* per session: where the session's script stands
  video,               \* per session: the uploaded file of the current run
  scenes,              \* run_analysis: the scene list (line 116 / 120)
  i,                   \* run_analysis: the loop index (0-based, line 126)
  results,             \* run_analysis: the accumulated results (line 125)
  progress,            \* the fractions handed to the progress bar (line 163)
  attempts,            \* history variable: the intervals attempted so far,
                       \*   with the frame position and the two outcomes
  shown,               \* the message the session shows last
  history,             \* save_to_history: the list it has read (line 66)
  session_results,     \* st.session_state.results; None is <<>> (only None
                       \*   and non-empty lists are ever stored, both read by
                       \*   their truth value at line 201)
  session_video_bytes, \* st.session_state.video_bytes; None is ""
  file,                \* the history document (HISTORY_FILE)
  currentTime,         \* player: video.currentTime, in ms
  activeCards,         \* player: the cards that carry the class "active"
  timeDisplay,         \* player: the status readout
  pendingEvent,        \* player: a position change whose event is not yet handled
  clicked,             \* history variable: the card whose click set the position
  saves,               \* history variable: the number of completed saves
  stale,               \* history variable: per session, whether the document
                       \*   was written since the session's save read it
  staleWrites,         \* history variable: the number of writes made from a
                       \*   read that was stale
  lastRun,             \* history variable: per session, the run it wrote last
  lastWriter,          \* history variable: the session that wrote last (0: none)
  fileAtStart          \* history variable: per session, the document when its
                       \*   current run started

vars ==
  << pc, video, scenes, i, results, progress, attempts, shown, history,
     session_results, session_video_bytes, file, currentTime, activeCards,
     timeDisplay, pendingEvent, clicked, saves, stale, staleWrites, lastRun,
     lastWriter,
     fileAtStart >>

pipelineVars == << video, scenes, i, results, progress, attempts >>

playerVars == << currentTime, activeCards, timeDisplay, pendingEvent, clicked >>

raceVars == << saves, stale, staleWrites, lastRun, lastWriter >>

NoVideo == [name |-> "", readable |-> FALSE, fps |-> 0, frame_count |-> 0, cuts |-> <<>>]

NoRun == [id |-> 0, video_name |-> "", scene_count |-> 0, results |-> <<>>]

\* The readout as rendered (line 169): 0:00 and the placeholder.
InitialDisplay == [time |-> <<0, 0>>, scene |-> 0]

Init ==
  /\ pc = [s \in Sessions |-> "upload"]
  /\ video = [s \in Sessions |-> NoVideo]
  /\ scenes = [s \in Sessions |-> <<>>]
  /\ i = [s \in Sessions |-> 0]
  /\ results = [s \in Sessions |-> <<>>]
  /\ progress = [s \in Sessions |-> <<>>]
  /\ attempts = [s \in Sessions |-> <<>>]
  /\ shown = [s \in Sessions |-> "none"]
  /\ history = [s \in Sessions |-> <<>>]
  /\ session_results = [s \in Sessions |-> <<>>]
  /\ session_video_bytes = [s \in Sessions |-> ""]
  /\ file = AbsentFile
  /\ currentTime = 0
  /\ activeCards = {}
  /\ timeDisplay = InitialDisplay
  /\ pendingEvent = FALSE
  /\ clicked = 0
  /\ saves = 0
  /\ stale = [s \in Sessions |-> FALSE]
  /\ staleWrites = 0
  /\ lastRun = [s \in Sessions |-> NoRun]
  /\ lastWriter = 0
  /\ fileAtStart = [s \in Sessions |-> AbsentFile]

(***************************************************************************)
(* The start-analysis handler and run_analysis (src/main.py).              *)
(***************************************************************************)
\* The sessions that stand inside a run or a save.
InFlight == { t \in Sessions : pc[t] \in {"detect", "loop", "returned", "save"} }

\* Lines 229-256 and 109-114: the uploader is shown while the session holds
\* no results; the button stores the video bytes and calls run_analysis.
\* cap bounds the number of saves a behaviour makes.
StartAnalysis(s, videos, cap) ==
  /\ pc[s] = "upload"
  /\ ~Truthy(session_results[s])
  /\ saves + Cardinality(InFlight) < cap
  /\ \E v \in videos :
       /\ video' = [video EXCEPT ![s] = v]
       /\ session_video_bytes' = [session_video_bytes EXCEPT ![s] = v.name]
  /\ pc' = [pc EXCEPT ![s] = "detect"]
  /\ scenes' = [scenes EXCEPT ![s] = <<>>]
  /\ i' = [i EXCEPT ![s] = 0]
  /\ results' = [results EXCEPT ![s] = <<>>]
  /\ progress' = [progress EXCEPT ![s] = <<>>]
  /\ attempts' = [attempts EXCEPT ![s] = <<>>]
  /\ shown' = [shown EXCEPT ![s] = "none"]
  /\ fileAtStart' = [fileAtStart EXCEPT ![s] = file]
  /\ UNCHANGED << history, session_results, file, playerVars, raceVars >>

\* An exception leaves run_analysis and the handler: the script stops and the
\* framework shows the exception.
Raise(s) ==
  /\ pc' = [pc EXCEPT ![s] = "raised"]
  /\ shown' = [shown EXCEPT ![s] = "exception"]

\* Lines 116-123.  open_video raises on a file it cannot open; the division
\* of line 119 raises when the container reports no frame rate.
DetectScenes(s) ==
  /\ pc[s] = "detect"
  /\ LET v == video[s]
         found == detect_scenes(v)
     IN IF ~v.readable \/ (found = <<>> /\ v.fps = 0)
        THEN Raise(s) /\ UNCHANGED scenes
        ELSE /\ scenes' = [scenes EXCEPT ![s] =
                             IF found = <<>> THEN FallbackScenes(v) ELSE found]
             /\ pc' = [pc EXCEPT ![s] = "loop"]
             /\ shown' = [shown EXCEPT ![s] = "info"]
  /\ UNCHANGED << video, i, results, progress, attempts, history, session_results,
                  session_video_bytes, file, playerVars, raceVars, fileAtStart >>

\* Lines 126-163: one iteration of the loop.
ProcessScene(s) ==
  /\ pc[s] = "loop"
  /\ i[s] < Len(scenes[s])
  /\ LET scene == scenes[s][i[s] + 1]
         start == SceneStart(scene)
         end == SceneEnd(scene)
         mid == Mid(start, end)
     IN \E frame \in FrameOutcomes(video[s]) :
        \E analysis \in (IF frame THEN Responses ELSE {"none"}) :
          /\ attempts' = [attempts EXCEPT ![s] =
                            Append(@, [index |-> i[s] + 1, mid |-> mid,
                                       frame |-> frame, analysis |-> analysis])]
          /\ IF frame /\ analysis = "not_object"
             THEN Raise(s) /\ UNCHANGED << i, results, progress >>
             ELSE /\ results' = [results EXCEPT ![s] =
                                   IF Recorded(frame, analysis)
                                   THEN Append(@, SceneResult(i[s], start, end))
                                   ELSE @]
                  /\ progress' = [progress EXCEPT ![s] =
                                    Append(@, Progress(i[s], Len(scenes[s])))]
                  /\ i' = [i EXCEPT ![s] = @ + 1]
                  /\ UNCHANGED << pc, shown >>
  /\ UNCHANGED << video, scenes, history, session_results, session_video_bytes,
                  file, playerVars, raceVars, fileAtStart >>

\* Lines 165-166: the loop is over; run_analysis reports and returns.
ReturnResults(s) ==
  /\ pc[s] = "loop"
  /\ i[s] = Len(scenes[s])
  /\ pc' = [pc EXCEPT ![s] = "returned"]
  /\ shown' = [shown EXCEPT ![s] = "fertig"]
  /\ UNCHANGED << pipelineVars, history, session_results, session_video_bytes,
                  file, playerVars, raceVars, fileAtStart >>

\* Lines 258, 262-263: no results.
HandlerNoResults(s) ==
  /\ pc[s] = "returned"
  /\ ~HasResults(results[s])
  /\ pc' = [pc EXCEPT ![s] = "upload"]
  /\ shown' = [shown EXCEPT ![s] = "keine_ergebnisse"]
  /\ UNCHANGED << pipelineVars, history, session_results, session_video_bytes,
                  file, playerVars, raceVars, fileAtStart >>

\* Lines 258-259 and 66: save_to_history reads the document.
HandlerLoad(s) ==
  /\ pc[s] = "returned"
  /\ HasResults(results[s])
  /\ history' = [history EXCEPT ![s] = load_history(file)]
  /\ pc' = [pc EXCEPT ![s] = "save"]
  /\ stale' = [stale EXCEPT ![s] = FALSE]
  /\ UNCHANGED << pipelineVars, shown, session_results, session_video_bytes, file,
                  playerVars, saves, staleWrites, lastRun, lastWriter, fileAtStart >>

\* Lines 67-74 and 260-261: save_to_history rewrites the document, the
\* results become the session's, and the script reruns into the results view,
\* where session 1's player is rendered anew.
HandlerWrite(s) ==
  /\ pc[s] = "save"
  /\ file' = save_to_history(history[s], video[s].name, results[s])
  /\ session_results' = [session_results EXCEPT ![s] = results[s]]
  /\ pc' = [pc EXCEPT ![s] = "review"]
  /\ shown' = [shown EXCEPT ![s] = "success"]
  /\ saves' = saves + 1
  /\ stale' = [t \in Sessions |-> t # s /\ pc[t] = "save"]
  /\ staleWrites' = staleWrites + (IF stale[s] THEN 1 ELSE 0)
  /\ lastRun' = [lastRun EXCEPT ![s] = NewRun(history[s], video[s].name, results[s])]
  /\ lastWriter' = s
  /\ IF s = 1
     THEN /\ currentTime' = 0
          /\ activeCards' = {}
          /\ timeDisplay' = InitialDisplay
          /\ pendingEvent' = FALSE
          /\ clicked' = 0
     ELSE UNCHANGED playerVars
  /\ UNCHANGED << pipelineVars, history, session_video_bytes, fileAtStart >>

\* Lines 225-228: the "new analysis" button.
NewAnalysis(s) ==
  /\ pc[s] = "review"
  /\ session_results' = [session_results EXCEPT ![s] = <<>>]
  /\ session_video_bytes' = [session_video_bytes EXCEPT ![s] = ""]
  /\ pc' = [pc EXCEPT ![s] = "upload"]
  /\ shown' = [shown EXCEPT ![s] = "none"]
  /\ UNCHANGED << pipelineVars, history, file, playerVars, raceVars, fileAtStart >>

\* After an exception the user's next interaction reruns the script from the
\* top; the session state is what the stopped script left.
Rerun(s) ==
  /\ pc[s] = "raised"
  /\ pc' = [pc EXCEPT ![s] = "upload"]
  /\ UNCHANGED << pipelineVars, shown, history, session_results, session_video_bytes,
                  file, playerVars, raceVars, fileAtStart >>

(***************************************************************************)
(* The player of session 1 (src/components/video_player.py), rendered     *)
(* over the session's results.  A position change queues its event        *)
(* (timeupdate, seeking, play); the event's handler runs before the       *)
(* position changes again.                                                 *)
(***************************************************************************)
PlayerScenes == session_results[1]

\* Playback, or a seek on the transport controls, moves the position.
PositionChange ==
  /\ pc[1] = "review"
  /\ ~pendingEvent
  /\ \E t \in Positions : currentTime' = t
  /\ pendingEvent' = TRUE
  /\ clicked' = 0
  /\ UNCHANGED << pc, pipelineVars, shown, history, session_results,
                  session_video_bytes, file, activeCards, timeDisplay, raceVars,
                  fileAtStart >>

\* Lines 190-193 and 39: a click on card k.
seekToScene ==
  /\ pc[1] = "review"
  /\ ~pendingEvent
  /\ \E k \in 1..Len(PlayerScenes) :
       /\ currentTime' = parseFloat(PlayerScenes[k].Start_Time_s)
       /\ clicked' = k
  /\ pendingEvent' = TRUE
  /\ UNCHANGED << pc, pipelineVars, shown, history, session_results,
                  session_video_bytes, file, activeCards, timeDisplay, raceVars,
                  fileAtStart >>

\* Lines 195-224, as the listener of lines 227-229.
updateActiveScene ==
  /\ pc[1] = "review"
  /\ pendingEvent
  /\ LET activeSceneId == ActiveSceneId(PlayerScenes, currentTime)
     IN /\ activeCards' = ActiveCards(PlayerScenes, activeSceneId)
        /\ timeDisplay' = TimeDisplay(currentTime, activeSceneId)
  /\ pendingEvent' = FALSE
  /\ UNCHANGED << pc, pipelineVars, shown, history, session_results,
                  session_video_bytes, file, currentTime, clicked, raceVars,
                  fileAtStart >>

(***************************************************************************)
(* Specifications.                                                         *)
(***************************************************************************)
\* One session, every video, one save: the pipeline and the player.
Next ==
  \/ StartAnalysis(1, AllVideos, 1)
  \/ DetectScenes(1)
  \/ ProcessScene(1)
  \/ ReturnResults(1)
  \/ HandlerNoResults(1)
  \/ HandlerLoad(1)
  \/ HandlerWrite(1)
  \/ NewAnalysis(1)
  \/ Rerun(1)
  \/ PositionChange
  \/ seekToScene
  \/ updateActiveScene

Spec == Init /\ [][Next]_vars

\* One session, a few videos, a growing history document.
NextHistory ==
  \/ StartAnalysis(1, HistoryVideos, MaxHistory)
  \/ DetectScenes(1)
  \/ ProcessScene(1)
  \/ ReturnResults(1)
  \/ HandlerNoResults(1)
  \/ HandlerLoad(1)
  \/ HandlerWrite(1)
  \/ NewAnalysis(1)
  \/ Rerun(1)

SpecHistory == Init /\ [][NextHistory]_vars

\* Two sessions against the same document.
NextRace ==
  \E s \in Sessions :
    \/ StartAnalysis(s, RaceVideos(s), MaxHistory + 1)
    \/ DetectScenes(s)
    \/ ProcessScene(s)
    \/ ReturnResults(s)
    \/ HandlerNoResults(s)
    \/ HandlerLoad(s)
    \/ HandlerWrite(s)
    \/ NewAnalysis(s)
    \/ Rerun(s)

SpecRace == Init /\ [][NextRace]_vars

(***************************************************************************)
(* Properties.                                                             *)
(***************************************************************************)
\* run_analysis has returned, and its locals are still those of the return.
Returned(s) == pc[s] \in {"returned", "save", "review"}

\* The Scene_IDs of a result sequence.
SceneIds(rs) == [k \in 1..Len(rs) |-> rs[k].Scene_ID]

\* Attempt a of the log produced a frame and an annotation without error.
Succeeded(a) == a.frame /\ a.analysis = "object"

RECURSIVE SucceededIndices(_, _)
\* The indices of the successful attempts among log[k..], in order.
SucceededIndices(log, k) ==
  IF k > Len(log) THEN <<>>
  ELSE (IF Succeeded(log[k]) THEN <<log[k].index>> ELSE <<>>)
         \o SucceededIndices(log, k + 1)

\* C1: a run over N >= 1 detected intervals attempts each interval exactly
\* once in detection order, reports progress i/N after the i-th interval
\* whatever its outcome, and then reaches Done: once the run has left its
\* loop, the attempted intervals are 1..N, the reported fractions are 1/N,
\* ..., N/N, and the run has returned (it was not ended by an exception).
C1_AllAttemptedThenDone ==
  \A s \in Sessions :
    (detect_scenes(video[s]) # <<>> /\ Len(scenes[s]) >= 1 /\ pc[s] # "loop") =>
      /\ pc[s] # "raised"
      /\ [k \in 1..Len(attempts[s]) |-> attempts[s][k].index]
           = [k \in 1..Len(scenes[s]) |-> k]
      /\ progress[s] = [k \in 1..Len(scenes[s]) |-> <<k, Len(scenes[s])>>]

\* C2: the sequence run_analysis returns holds exactly the intervals whose
\* frame was extracted and whose annotation carried no error, in detection
\* order, each with its 1-based detection position as Scene_ID (a failed
\* interval is left out and the later ones are not renumbered); annotation
\* failing for interval 2 of 3 yields Scene_IDs 1 and 3.
C2_ResultsAreTheSucceededIntervals ==
  \A s \in Sessions :
    Returned(s) =>
      /\ Len(attempts[s]) = Len(scenes[s])
      /\ SceneIds(results[s]) = SucceededIndices(attempts[s], 1)
      /\ ( ( Len(scenes[s]) = 3
             /\ Succeeded(attempts[s][1])
             /\ attempts[s][2].frame /\ attempts[s][2].analysis = "error"
             /\ Succeeded(attempts[s][3]) )
           => SceneIds(results[s]) = <<1, 3>> )

C2_Witness ==
  /\ pc[1] = "returned"
  /\ Len(scenes[1]) = 3
  /\ attempts[1][2].frame /\ attempts[1][2].analysis = "error"
  /\ SceneIds(results[1]) = <<1, 3>>

\* C3 as stated: within one run, consecutive results have Scene_IDs that
\* differ by exactly 1.
C3_Contiguous ==
  \A s \in Sessions :
    \A k \in 1..(Len(results[s]) - 1) :
      results[s][k + 1].Scene_ID = results[s][k].Scene_ID + 1

\* C3, amended: within one run the Scene_IDs are strictly increasing, and
\* the intervals whose positions lie strictly between two consecutive
\* Scene_IDs are exactly intervals that were attempted and skipped; so two
\* consecutive Scene_IDs differ by 1 plus the number of intervals skipped
\* between them.
C3_IncreasingWithGapsAtSkips ==
  \A s \in Sessions :
    \A k \in 1..(Len(results[s]) - 1) :
      LET a == results[s][k].Scene_ID
          b == results[s][k + 1].Scene_ID
      IN /\ a < b
         /\ \A j \in (a + 1)..(b - 1) :
              j <= Len(attempts[s]) /\ ~Succeeded(attempts[s][j])
         /\ b - a = 1 + Cardinality({ j \in 1..Len(attempts[s]) :
                                        a < j /\ j < b /\ ~Succeeded(attempts[s][j]) })

C3_Witness ==
  /\ pc[1] = "returned"
  /\ Len(results[1]) = 2
  /\ ~attempts[1][2].frame
  /\ results[1][1].Scene_ID = 1
  /\ results[1][2].Scene_ID = 3

\* Scene k of the list contains position t (ms) in its half-open interval.
Contains(list, k, t) ==
  list[k].Start_Time_s * 10 <= t /\ t < list[k].End_Time_s * 10

\* Scene k is the first scene of the list that contains t.
FirstContaining(list, k, t) ==
  Contains(list, k, t) /\ \A j \in 1..(k - 1) : ~Contains(list, j, t)

\* The scenes of the specification's example: (1, 0.00, 5.00), (2, 5.00, 9.00).
ExampleScenes ==
  << [Scene_ID |-> 1, Start_Time_s |-> 0, End_Time_s |-> 500],
     [Scene_ID |-> 2, Start_Time_s |-> 500, End_Time_s |-> 900] >>

\* What C4 says of the player once updateActiveScene has handled a position.
ActiveIsFirstContaining(list, t, cards, display) ==
  /\ \A k \in 1..Len(list) :
       k \in cards <=>
         \E f \in 1..Len(list) :
           FirstContaining(list, f, t) /\ list[k].Scene_ID = list[f].Scene_ID
  /\ Cardinality(cards) <= 1
  /\ (\A k \in 1..Len(list) : ~Contains(list, k, t)) =>
       (cards = {} /\ display.scene = 0)
  /\ list = ExampleScenes =>
       /\ t = 4990 => cards = {1}
       /\ t = 5000 => cards = {2}
       /\ t = 9000 => cards = {}

\* C4: after every position update handled by updateActiveScene, a card is
\* marked active if and only if its Scene_ID is that of the first scene, in
\* result order, whose [start_s, end_s) contains the position; so at most
\* one card is active, and none (with the placeholder in the readout) when no
\* interval contains the position.  For (1, 0.00, 5.00), (2, 5.00, 9.00):
\* 4.99 selects scene 1, 5.00 scene 2, 9.00 none.
C4_ActiveCardIsFirstContaining ==
  [][ (pendingEvent /\ ~pendingEvent' /\ pc'[1] = "review") =>
        ActiveIsFirstContaining(PlayerScenes', currentTime', activeCards', timeDisplay')
    ]_vars

C4_Witness ==
  /\ pc[1] = "review"
  /\ ~pendingEvent
  /\ PlayerScenes = ExampleScenes
  /\ currentTime = 5000
  /\ activeCards = {2}
  /\ timeDisplay.scene = 2

C6_EmptyRunFailsNonEmptyRunIsSaved ==
  /\ (pc[1] = "upload" /\ shown[1] = "keine_ergebnisse") =>
       /\ results[1] = <<>>
       /\ file = fileAtStart[1]
       /\ session_results[1] = <<>>
  /\ (Returned(1) /\ results[1] = <<>>) => pc[1] = "returned"
  /\ pc[1] \in {"returned", "save"} =>
       (file = fileAtStart[1] /\ session_results[1] = <<>>)
  /\ pc[1] = "review" =>
       /\ results[1] # <<>>
       /\ session_results[1] = results[1]
       /\ Len(load_history(file)) = Len(load_history(fileAtStart[1])) + 1
       /\ file.runs[1].results = results[1]
       /\ file.runs[1].scene_count = Len(results[1])
       /\ \A k \in 1..Len(load_history(fileAtStart[1])) :
            file.runs[k + 1] = fileAtStart[1].runs[k]

C6_Witness ==
  /\ pc[1] = "upload"
  /\ shown[1] = "keine_ergebnisse"
  /\ Len(attempts[1]) = 2
  /\ Len(load_history(file)) = 1

\* The upload cannot be opened, or holds no frame.
Unusable(v) == v.name # "" /\ (~v.readable \/ v.frame_count = 0)

\* C7: on an unreadable or zero-length video the run ends with an error the
\* user sees, and it leaves nothing behind: the session holds neither results
\* nor the video, and the history document is as it was.
C7_AbortKeepsNothing ==
  \A s \in Sessions :
    (Unusable(video[s]) /\ pc[s] \in {"raised", "upload"}) =>
      /\ shown[s] \in {"exception", "keine_ergebnisse"}
      /\ session_results[s] = <<>>
      /\ session_video_bytes[s] = ""
      /\ file = fileAtStart[s]

\* The detector finds no scene in a video that has a duration.
Uncut(v) == v.readable /\ v.fps # 0 /\ detect_scenes(v) = <<>>

\* C8: when the detector returns no interval, exactly one interval, [0,
\* duration], stands in: one interval is attempted, its frame is taken at
\* duration / 2, and a recorded result has Scene_ID 1, start 0.00 and the
\* duration (to the hundredth of a second) as its end.
C8_FallbackInterval ==
  \A s \in Sessions :
    (Uncut(video[s]) /\ pc[s] \in {"loop", "returned", "save", "review"}) =>
      LET dur == (video[s].frame_count * 1000) \div video[s].fps
      IN /\ Len(scenes[s]) = 1
         /\ SceneStart(scenes[s][1]) = 0
         /\ SceneEnd(scenes[s][1]) = dur
         /\ Len(attempts[s]) <= 1
         /\ Returned(s) => Len(attempts[s]) = 1
         /\ \A k \in 1..Len(attempts[s]) : 2 * attempts[s][k].mid = dur
         /\ \A k \in 1..Len(results[s]) :
              /\ results[s][k].Scene_ID = 1
              /\ results[s][k].Start_Time_s = 0
              /\ results[s][k].End_Time_s * 10 - dur \in -5..5

C8_Witness ==
  /\ pc[1] = "returned"
  /\ detect_scenes(video[1]) = <<>>
  /\ video[1].frame_count = 2250
  /\ attempts[1] = << [index |-> 1, mid |-> 4500, frame |-> TRUE, analysis |-> "object"] >>
  /\ results[1] = << [Scene_ID |-> 1, Start_Time_s |-> 0, End_Time_s |-> 900] >>

NoneSaving == \A s \in Sessions : pc[s] # "save"

InFile(run) == \E k \in 1..Len(load_history(file)) : file.runs[k] = run

\* C9: the store has no lock.  When both sessions read the document before
\* either writes, the last writer wins: both computed id = previous length
\* + 1, and after both saves the document holds only one of the two runs.
\* When the appends are strictly sequential (no write from a stale read) no
\* run is lost.
C9_LastWriterWins ==
  /\ lastWriter # 0 =>
       (file.exists /\ file.runs[1] = lastRun[lastWriter])
  /\ \A s \in Sessions :
       (pc[s] = "save" /\ ~stale[s]) => history[s] = load_history(file)
  /\ (NoneSaving /\ saves = 2 /\ staleWrites = 1
        /\ lastRun[1] # NoRun /\ lastRun[2] # NoRun) =>
       /\ lastRun[1].id = lastRun[2].id
       /\ lastRun[1].id = Len(load_history(file))
       /\ InFile(lastRun[1]) # InFile(lastRun[2])
  /\ staleWrites = 0 =>
       /\ Len(load_history(file)) = saves
       /\ \A s \in Sessions : lastRun[s] # NoRun => InFile(lastRun[s])

C9_Witness ==
  /\ NoneSaving
  /\ saves = 2
  /\ staleWrites = 1
  /\ lastRun[1].id = 1
  /\ lastRun[2].id = 1
  /\ lastWriter = 2
  /\ Len(load_history(file)) = 1
  /\ ~InFile(lastRun[1])

\* C10: for every result sequence run_analysis can produce and every card k
\* of it, a click on card k sets the position to the scene's start, and the
\* next updateActiveScene marks exactly card k as active.
C10_ClickedCardBecomesActive ==
  (pc[1] = "review" /\ ~pendingEvent /\ clicked # 0) => activeCards = {clicked}

====
